---- MODULE Spec2Model ----
(***************************************************************************)
(* A model of tracing-layer-axiom (src/src/lib.rs): the capture hook       *)
(* AxiomLoggingLayer::on_event with its field visitor JsonVisitor, the     *)
(* unbounded mpsc channel between the layer and the worker, and the        *)
(* delivery worker axiom_backend_worker with its bounded retry loop.       *)
(*                                                                         *)
(* Strings the code slices or tests by prefix (attribute names, string     *)
(* values) are sequences of one-character strings; strings the code only   *)
(* copies (level, target, tags) are TLA+ strings.                          *)
(***************************************************************************)
EXTENDS Integers, Sequences, FiniteSets, TLC

\* const MAX_RETRIES: usize = 10;
MAX_RETRIES == 10

\* Bounds of the model.
MaxEvents == 3      \* events emitted over a run, all producers together
MaxAttrs == 2       \* attributes of one event in the visitor specification

Producers == {"p1", "p2"}

VARIABLES
    queue,      \* the channel's buffer: entries sent and not yet received
    txAlive,    \* the layer (and its UnboundedSender) still exists
    rxAlive,    \* the worker's UnboundedReceiver still exists
    pc,         \* the worker's position
    message,    \* the worker's local `message` (an entry), or NoEntry
    retries,    \* the worker's local `retries`
    payload,    \* the records of the ingest call in flight
    inflight,   \* ingest calls started and not yet returned
    calls,      \* ingest calls made for the current message
    diags,      \* "fail to send logs to axiom" lines printed for it
    oks,        \* ingest calls that returned Ok for it
    last,       \* what the worker did with the message it held before
    enq,        \* ids accepted by the channel, in order
    dequeued,   \* ids received by the worker, in order
    delivered,  \* ids whose ingest returned Ok, in order
    produced,   \* events emitted by each producer
    txDiag,     \* "fail to send log event to given channel" diagnostics
    lost,       \* ids whose send failed
    idleClose,  \* the layer was dropped while the worker was idle and the queue empty
    input,      \* visitor specification: the event being recorded
    vidx,       \* visitor specification: attributes visited so far
    visitor,    \* visitor specification: the JsonVisitor's LogFields
    built       \* visitor specification: the LogEvent built, or NoEvent

workerVars == <<pc, message, retries, payload, inflight, calls, diags, oks, last, dequeued,
               delivered>>
chanVars == <<queue, txAlive, rxAlive, enq, produced, txDiag, lost, idleClose>>
visitVars == <<input, vidx, visitor, built>>
vars == <<workerVars, chanVars, visitVars>>

----
\* Strings as character sequences

S_message == <<"m","e","s","s","a","g","e">>
S_log_dot == <<"l","o","g",".">>
S_log_target == <<"l","o","g",".","t","a","r","g","e","t">>
S_r_hash == <<"r","#">>
S_r_type == <<"r","#","t","y","p","e">>
S_count == <<"c","o","u","n","t">>
S_boom == <<"b","o","o","m">>
Quote == "\""

\* str::starts_with
StartsWith(s, p) == Len(s) >= Len(p) /\ SubSeq(s, 1, Len(p)) = p

\* &n[k..]
SliceFrom(s, k) == SubSeq(s, k + 1, Len(s))

----
\* serde_json::Value, as far as the visitor builds it

JNull == [t |-> "null", n |-> 0, b |-> FALSE, s |-> <<>>]
JNum(n) == [t |-> "number", n |-> n, b |-> FALSE, s |-> <<>>]
JBool(b) == [t |-> "bool", n |-> 0, b |-> b, s |-> <<>>]
JStr(s) == [t |-> "string", n |-> 0, b |-> FALSE, s |-> s]

\* Value::from(f64): Number::from_f64 is None for NaN and the infinities
FromF64(fin, n) == IF fin THEN JNum(n) ELSE JNull

\* An event attribute as tracing hands it to the visitor: the field's name,
\* the record_* method it is dispatched to, and the value.  A Debug value is
\* kept by what it is: fmt::Arguments (renders as its text) or a string
\* (renders between quote characters).
Attr(name, kind, n, b, s, fin, dk) ==
    [name |-> name, kind |-> kind, n |-> n, b |-> b, s |-> s, fin |-> fin, dk |-> dk]
AttrF64(name, fin, n) == Attr(name, "f64", n, FALSE, <<>>, fin, "")
AttrI64(name, n) == Attr(name, "i64", n, FALSE, <<>>, TRUE, "")
AttrU64(name, n) == Attr(name, "u64", n, FALSE, <<>>, TRUE, "")
AttrBool(name, b) == Attr(name, "bool", 0, b, <<>>, TRUE, "")
AttrStr(name, s) == Attr(name, "str", 0, FALSE, s, TRUE, "")
AttrDebug(name, dk, s) == Attr(name, "debug", 0, FALSE, s, TRUE, dk)

\* format!("{:?}", value)
DebugFormat(a) == IF a.dk = "str" THEN <<Quote>> \o a.s \o <<Quote>> ELSE a.s

\* HashMap::insert
Insert(m, k, v) == [x \in (DOMAIN m) \cup {k} |-> IF x = k THEN v ELSE m[x]]

EmptyMap == [x \in {} |-> JNull]
None == [some |-> FALSE, val |-> <<>>]
Some(x) == [some |-> TRUE, val |-> x]

\* LogFields { message: None, fields: HashMap::default() }
NewLogFields == [message |-> None, fields |-> EmptyMap]

record_f64(lf, a) == [lf EXCEPT !.fields = Insert(@, a.name, FromF64(a.fin, a.n))]
record_i64(lf, a) == [lf EXCEPT !.fields = Insert(@, a.name, JNum(a.n))]
record_u64(lf, a) == [lf EXCEPT !.fields = Insert(@, a.name, JNum(a.n))]
\* Faulty variant: a boolean stored as its text
record_bool_AsString(lf, a) ==
    [lf EXCEPT !.fields = Insert(@, a.name, JStr(IF a.b THEN <<"t","r","u","e">> ELSE <<"f","a","l","s","e">>))]

record_bool(lf, a) == [lf EXCEPT !.fields = Insert(@, a.name, JBool(a.b))]
record_str(lf, a) == [lf EXCEPT !.fields = Insert(@, a.name, JStr(a.s))]

record_debug(lf, a) ==
    IF StartsWith(a.name, S_log_dot) THEN lf
    ELSE IF StartsWith(a.name, S_r_hash)
         THEN [lf EXCEPT !.fields = Insert(@, SliceFrom(a.name, 2), JStr(DebugFormat(a)))]
         ELSE [lf EXCEPT !.fields = Insert(@, a.name, JStr(DebugFormat(a)))]

\* JsonVisitor::trim_string_char (no caller in the crate)
trim_string_char(string) ==
    LET s1 == IF StartsWith(string, <<Quote>>) THEN SubSeq(string, 2, Len(string)) ELSE string
    IN  IF Len(s1) > 0 /\ s1[Len(s1)] = Quote THEN SubSeq(s1, 1, Len(s1) - 1) ELSE s1

\* One step of event.record(&mut visitor): the method the value's type selects
Record(lf, a) ==
    CASE a.kind = "f64" -> record_f64(lf, a)
      [] a.kind = "i64" -> record_i64(lf, a)
      [] a.kind = "u64" -> record_u64(lf, a)
      [] a.kind = "bool" -> record_bool(lf, a)
      [] a.kind = "str" -> record_str(lf, a)
      [] OTHER -> record_debug(lf, a)

\* event.record(&mut visitor): every attribute, in the event's order
RECURSIVE RecordAll(_, _)
RecordAll(lf, attrs) ==
    IF attrs = <<>> THEN lf ELSE RecordAll(Record(lf, Head(attrs)), Tail(attrs))

\* Option::unwrap_or_default
UnwrapOrDefault(o) == IF o.some THEN o.val ELSE <<>>

\* serde_json::to_value of the HashMap: an object with the map's members
ToValueMap(m) == [t |-> "object", members |-> m]

\* The pipeline's configuration (ConfigBuilder)
Application == "svc"
Environment == "prod"

\* The LogEvent on_event assembles from the metadata and the visitor's result
NewLogEvent(ev, lf) ==
    [application |-> Application,
     environment |-> Environment,
     level |-> ev.level,
     target |-> ev.target,
     name |-> ev.name,
     message |-> UnwrapOrDefault(lf.message),
     fields |-> ToValueMap(lf.fields)]

BuildLogEvent(ev) == NewLogEvent(ev, RecordAll(NewLogFields, ev.attrs))

\* An instrumentation event: metadata and attributes
Event(level, target, attrs) == [level |-> level, target |-> target, name |-> "event", attrs |-> attrs]

\* The events the producers of the pipeline specification emit
EvBoom == Event("ERROR", "app", <<AttrDebug(S_message, "args", S_boom), AttrI64(S_count, 3)>>)
EvPlain == Event("INFO", "db", <<>>)
Inputs == {EvBoom, EvPlain}

NoEvent == [application |-> "", environment |-> "", level |-> "", target |-> "",
            name |-> "", message |-> <<>>, fields |-> ToValueMap(EmptyMap)]
NoInput == Event("", "", <<>>)

----
\* The pipeline: channel, capture hook, worker

Entry(p, n, ev) == [id |-> <<p, n>>, ev |-> BuildLogEvent(ev)]
NoEntry == [id |-> <<"", 0>>, ev |-> NoEvent]
NoLast == [id |-> <<"", 0>>, calls |-> 0, diags |-> 0, ok |-> FALSE]

\* serde_json::to_value(&message)
ToJson(ev) == [t |-> "object", members |-> ev]

Emitted == Len(enq) + Cardinality(lost)

\* into_layer: an empty channel, one spawned worker not yet polled past
\* rx.recv(), and the layer holding the only sender
PipelineInit ==
    /\ queue = <<>>
    /\ txAlive = TRUE
    /\ rxAlive = TRUE
    /\ pc = "recv"
    /\ message = NoEntry
    /\ retries = 0
    /\ payload = <<>>
    /\ inflight = 0
    /\ calls = 0
    /\ diags = 0
    /\ oks = 0
    /\ last = NoLast
    /\ enq = <<>>
    /\ dequeued = <<>>
    /\ delivered = <<>>
    /\ produced = [p \in Producers |-> 0]
    /\ txDiag = 0
    /\ lost = {}
    /\ idleClose = FALSE

\* No event is being recorded outside on_event
VisitIdle ==
    /\ input = NoInput
    /\ vidx = 0
    /\ visitor = NewLogFields
    /\ built = NoEvent

Init == PipelineInit /\ VisitIdle

\* Faulty variant: a bounded channel of capacity 1, whose send waits while it is full
ChanSend_Bounded(entry) ==
    /\ Len(queue) < 1
    /\ IF rxAlive
       THEN /\ queue' = Append(queue, entry)
            /\ enq' = Append(enq, entry.id)
            /\ UNCHANGED <<txDiag, lost>>
       ELSE /\ txDiag' = txDiag + 1
            /\ lost' = lost \cup {entry.id}
            /\ UNCHANGED <<queue, enq>>

\* Faulty variant: a failed send is swallowed without the diagnostic
ChanSend_Silent(entry) ==
    IF rxAlive
    THEN /\ queue' = Append(queue, entry)
         /\ enq' = Append(enq, entry.id)
         /\ UNCHANGED <<txDiag, lost>>
    ELSE /\ lost' = lost \cup {entry.id}
         /\ UNCHANGED <<queue, enq, txDiag>>

\* UnboundedSender::send: queues the value while the receiver exists (no
\* capacity, no waiting), fails once it is gone
ChanSend(entry) ==
    IF rxAlive
    THEN /\ queue' = Append(queue, entry)
         /\ enq' = Append(enq, entry.id)
         /\ UNCHANGED <<txDiag, lost>>
    ELSE \* Err(e): tracing::error!(.. "fail to send log event to given channel")
         /\ txDiag' = txDiag + 1
         /\ lost' = lost \cup {entry.id}
         /\ UNCHANGED <<queue, enq>>

\* AxiomLoggingLayer::on_event, called by producer p with event ev
on_event(p, ev) ==
    /\ txAlive
    /\ Emitted < MaxEvents
    /\ ChanSend(Entry(p, produced[p] + 1, ev))
    /\ produced' = [produced EXCEPT ![p] = @ + 1]
    /\ UNCHANGED <<txAlive, rxAlive, idleClose, workerVars, visitVars>>

\* The subscriber drops the layer: the channel's only sender goes away
DropLayer ==
    /\ txAlive
    /\ txAlive' = FALSE
    /\ idleClose' = (rxAlive /\ pc = "recv" /\ queue = <<>>)
    /\ UNCHANGED <<queue, rxAlive, enq, produced, txDiag, lost, workerVars, visitVars>>

\* Faulty variant: the receiver hands out the newest entry
RecvItem_Newest(q) == q[Len(q)]

\* Faulty variant: the receiver leaves the entry it hands out in the queue
RecvRest_Peek(q) == q

\* rx.recv().await returns Some(message): the oldest queued entry
RecvItem(q) == Head(q)
RecvRest(q) == Tail(q)

\* Faulty variant: retries is declared outside the outer loop and never reset
RecvSome_NoReset ==
    /\ pc = "recv"
    /\ rxAlive
    /\ queue # <<>>
    /\ message' = RecvItem(queue)
    /\ queue' = RecvRest(queue)
    /\ pc' = "while"
    /\ dequeued' = Append(dequeued, RecvItem(queue).id)
    /\ calls' = 0
    /\ diags' = 0
    /\ oks' = 0
    /\ UNCHANGED <<retries, payload, inflight, last, delivered>>
    /\ UNCHANGED <<txAlive, rxAlive, enq, produced, txDiag, lost, idleClose, visitVars>>

\* while let Some(message) = rx.recv().await { let mut retries = 0;
RecvSome ==
    /\ pc = "recv"
    /\ rxAlive
    /\ queue # <<>>
    /\ message' = RecvItem(queue)
    /\ queue' = RecvRest(queue)
    /\ retries' = 0
    /\ pc' = "while"
    /\ dequeued' = Append(dequeued, RecvItem(queue).id)
    /\ calls' = 0
    /\ diags' = 0
    /\ oks' = 0
    /\ UNCHANGED <<payload, inflight, last, delivered>>
    /\ UNCHANGED <<txAlive, rxAlive, enq, produced, txDiag, lost, idleClose, visitVars>>

\* Faulty variant: the worker keeps waiting on a closed, empty channel
RecvNone_Blocked ==
    /\ pc = "recv"
    /\ rxAlive
    /\ queue = <<>>
    /\ ~txAlive
    /\ UNCHANGED vars

\* Faulty variant: the worker returns as soon as the channel is closed,
\* whatever is still queued
RecvNone_NoDrain ==
    /\ pc = "recv"
    /\ rxAlive
    /\ ~txAlive
    /\ pc' = "done"
    /\ rxAlive' = FALSE
    /\ UNCHANGED <<message, retries, payload, inflight, calls, diags, oks, last, dequeued, delivered>>
    /\ UNCHANGED <<queue, txAlive, enq, produced, txDiag, lost, idleClose, visitVars>>

\* rx.recv().await returns None (every sender dropped, nothing queued): the
\* loop ends and the function returns, dropping rx
RecvNone ==
    /\ pc = "recv"
    /\ rxAlive
    /\ queue = <<>>
    /\ ~txAlive
    /\ pc' = "done"
    /\ rxAlive' = FALSE
    /\ UNCHANGED <<message, retries, payload, inflight, calls, diags, oks, last, dequeued, delivered>>
    /\ UNCHANGED <<queue, txAlive, enq, produced, txDiag, lost, idleClose, visitVars>>

\* Faulty variant: one attempt too many
WhileCond_OffByOne(r) == r <= MAX_RETRIES

\* while retries < MAX_RETRIES
WhileCond(r) == r < MAX_RETRIES

\* Faulty variant: exhausted retries end the worker
LeaveMessage_Abort(ok) ==
    /\ pc' = IF ok THEN "recv" ELSE "done"
    /\ last' = [id |-> message.id, calls |-> calls, diags |-> diags, ok |-> ok]
    /\ message' = NoEntry

\* The loop's exit: the message goes out of scope, back to rx.recv()
LeaveMessage(ok) ==
    /\ pc' = "recv"
    /\ last' = [id |-> message.id, calls |-> calls, diags |-> diags, ok |-> ok]
    /\ message' = NoEntry

\* Faulty variant: the ingest is started and not awaited
WhileHead_Detached ==
    /\ pc = "while"
    /\ payload' = <<ToJson(message.ev)>>
    /\ inflight' = inflight + 1
    /\ calls' = calls + 1
    /\ LeaveMessage(TRUE)
    /\ UNCHANGED <<retries, diags, oks, dequeued, delivered, chanVars, visitVars>>

\* Faulty variant: everything queued is sent along with the message
WhileHead_Batch ==
    /\ pc = "while"
    /\ IF WhileCond(retries)
       THEN /\ pc' = "ingest"
            /\ payload' = <<ToJson(message.ev)>> \o [i \in 1..Len(queue) |-> ToJson(queue[i].ev)]
            /\ inflight' = inflight + 1
            /\ calls' = calls + 1
            /\ UNCHANGED <<message, last>>
       ELSE /\ LeaveMessage(FALSE)
            /\ UNCHANGED <<payload, inflight, calls>>
    /\ UNCHANGED <<retries, diags, oks, dequeued, delivered, chanVars, visitVars>>

\* The loop head: either client.ingest(dataset, vec![to_value(&message)]) is
\* called and awaited, or the retries are exhausted and the loop is left
WhileHead ==
    /\ pc = "while"
    /\ IF WhileCond(retries)
       THEN /\ pc' = "ingest"
            /\ payload' = <<ToJson(message.ev)>>
            /\ inflight' = inflight + 1
            /\ calls' = calls + 1
            /\ UNCHANGED <<message, last>>
       ELSE /\ LeaveMessage(FALSE)
            /\ UNCHANGED <<payload, inflight, calls>>
    /\ UNCHANGED <<retries, diags, oks, dequeued, delivered, chanVars, visitVars>>

\* The awaited ingest returns Err(e): retries += 1; println!(..)
IngestErr ==
    /\ pc = "ingest"
    /\ inflight' = inflight - 1
    /\ payload' = <<>>
    /\ retries' = retries + 1
    /\ diags' = diags + 1
    /\ pc' = "while"
    /\ UNCHANGED <<message, calls, oks, last, dequeued, delivered, chanVars, visitVars>>

\* Faulty variant: no break after a successful ingest
IngestOk_NoBreak ==
    /\ pc = "ingest"
    /\ inflight' = inflight - 1
    /\ payload' = <<>>
    /\ oks' = oks + 1
    /\ delivered' = Append(delivered, message.id)
    /\ pc' = "while"
    /\ UNCHANGED <<message, last, retries, calls, diags, dequeued, chanVars, visitVars>>

\* The awaited ingest returns Ok: break
IngestOk ==
    /\ pc = "ingest"
    /\ inflight' = inflight - 1
    /\ payload' = <<>>
    /\ oks' = oks + 1
    /\ delivered' = Append(delivered, message.id)
    /\ LeaveMessage(TRUE)
    /\ UNCHANGED <<retries, calls, diags, dequeued, chanVars, visitVars>>

\* The runtime the worker was spawned on shuts down: the task is dropped at
\* the await it is suspended in, and rx and what is queued in it with it
RuntimeShutdown ==
    /\ pc \in {"recv", "ingest"}
    /\ pc' = "cancelled"
    /\ rxAlive' = FALSE
    /\ queue' = <<>>
    /\ message' = NoEntry
    /\ payload' = <<>>
    /\ inflight' = 0
    /\ UNCHANGED <<retries, calls, diags, oks, last, dequeued, delivered>>
    /\ UNCHANGED <<txAlive, enq, produced, txDiag, lost, idleClose, visitVars>>

Next ==
    \/ \E p \in Producers, ev \in Inputs : on_event(p, ev)
    \/ DropLayer
    \/ RecvSome
    \/ RecvNone
    \/ WhileHead
    \/ IngestErr
    \/ IngestOk
    \/ RuntimeShutdown

Spec == Init /\ [][Next]_vars

\* The pipeline while its runtime keeps running, with the worker task polled
\* whenever it can take a step of its own (a woken tokio task is scheduled);
\* nothing is assumed about when, or whether, an ingest call returns
NextLive ==
    \/ \E p \in Producers, ev \in Inputs : on_event(p, ev)
    \/ DropLayer
    \/ RecvSome
    \/ RecvNone
    \/ WhileHead
    \/ IngestErr
    \/ IngestOk

FairSpec == Init /\ [][NextLive]_vars /\ WF_vars(RecvSome \/ RecvNone \/ WhileHead)

\* The same, with an ingestion client whose every call returns, Ok or Err
DeliverySpec ==
    /\ Init /\ [][NextLive]_vars
    /\ WF_vars(RecvSome \/ RecvNone \/ WhileHead)
    /\ WF_vars(IngestOk \/ IngestErr)

----
\* The field visitor on its own: on_event's first half, one attribute a step

AttrNames == {S_message, S_log_target, S_r_type, S_count}

AttrPool ==
    UNION { { AttrF64(nm, TRUE, 1), AttrF64(nm, FALSE, 0), AttrI64(nm, -1), AttrU64(nm, 3),
              AttrBool(nm, TRUE), AttrStr(nm, S_boom),
              AttrDebug(nm, "args", S_boom), AttrDebug(nm, "str", S_boom) } : nm \in AttrNames }

\* Attribute lists of at most MaxAttrs attributes with distinct names (a
\* callsite's field names)
AttrLists ==
    UNION { { sq \in [1..k -> AttrPool] : \A i, j \in 1..k : i # j => sq[i].name # sq[j].name }
            : k \in 0..MaxAttrs }

VisitInit ==
    /\ PipelineInit
    /\ input \in { Event("ERROR", "app", al) : al \in AttrLists }
    /\ vidx = 0
    /\ visitor = NewLogFields
    /\ built = NoEvent

\* event.record(&mut visitor) reaches the next attribute
VisitRecord ==
    /\ built = NoEvent
    /\ vidx < Len(input.attrs)
    /\ visitor' = Record(visitor, input.attrs[vidx + 1])
    /\ vidx' = vidx + 1
    /\ UNCHANGED <<input, built, workerVars, chanVars>>

\* let log_fields = visitor.0; let log_event = LogEvent { .. };
VisitBuild ==
    /\ built = NoEvent
    /\ vidx = Len(input.attrs)
    /\ built' = NewLogEvent(input, visitor)
    /\ UNCHANGED <<input, vidx, visitor, workerVars, chanVars>>

VisitNext == VisitRecord \/ VisitBuild

VisitSpec == VisitInit /\ [][VisitNext]_vars

----
\* Properties of the delivery worker and the channel

QueuedIds == [i \in 1..Len(queue) |-> queue[i].id]
FromProducer(p) == SelectSeq(dequeued, LAMBDA id : id[1] = p)

\* C1: a message whose every ingest call failed left the worker after exactly
\* MAX_RETRIES calls and MAX_RETRIES printed diagnostics (one per failed
\* call), and no ingest call is ever made for it again; while a message has
\* only failed so far, each returned call has printed one diagnostic and the
\* calls never exceed MAX_RETRIES.
C1_ExactlyMaxRetries ==
    /\ (last # NoLast /\ ~last.ok) =>
          /\ last.calls = MAX_RETRIES
          /\ last.diags = MAX_RETRIES
          /\ message.id # last.id
    /\ (message # NoEntry /\ oks = 0) =>
          /\ diags = retries
          /\ calls = diags + inflight
          /\ calls <= MAX_RETRIES

C1_Witness ==
    /\ last # NoLast /\ ~last.ok /\ last.diags = MAX_RETRIES
    /\ pc = "ingest" /\ message # NoEntry

\* C2: a message whose k-th ingest call succeeded after k-1 failures
\* (1 <= k <= MAX_RETRIES) left the worker with exactly k calls made, and an
\* ingest that returned Ok is never followed by another call for the message:
\* the worker no longer holds it.
C2_SuccessEndsRetries ==
    /\ last.ok =>
          /\ last.calls = last.diags + 1
          /\ last.calls \in 1..MAX_RETRIES
          /\ message.id # last.id
    /\ oks > 0 => (oks = 1 /\ last.ok /\ message = NoEntry /\ pc # "ingest")

C2_Witness == last.ok /\ last.calls = 3 /\ last.diags = 2 /\ pc = "recv"

\* C3: the worker has returned only if the layer was dropped and the queue
\* is empty; after a message is left (delivered or exhausted) the worker is
\* back at rx.recv(), and it takes the next queued entry.
C3_TerminatesOnlyOnClose ==
    /\ pc = "done" => (~txAlive /\ queue = <<>>)
    /\ (message = NoEntry /\ pc \notin {"done", "cancelled"}) => pc = "recv"
    /\ (last # NoLast /\ pc = "recv" /\ queue # <<>>) => ENABLED RecvSome

C3_Witness == pc = "done" /\ last # NoLast /\ ~last.ok /\ Len(dequeued) >= 2

\* C4: once the layer is dropped with the worker idle at rx.recv() and the
\* queue empty, the worker returns; from then on no ingest call is made and
\* no diagnostic is printed.
C4_IdleCloseTerminates ==
    /\ (~txAlive /\ rxAlive /\ pc = "recv" /\ queue = <<>>) ~> (pc = "done")
    /\ [][(~txAlive /\ pc \in {"recv", "done"} /\ queue = <<>>) =>
            /\ pc' \in {"recv", "done"}
            /\ calls' = calls /\ inflight' = inflight
            /\ diags' = diags /\ txDiag' = txDiag]_vars

C4_Witness == idleClose /\ pc = "done" /\ inflight = 0

\* C5: the entries the worker has received from one producer are that
\* producer's first, second, third .. event, in this order, however the
\* producers' sends and the worker's steps interleave.
C5_FifoPerProducer ==
    \A p \in Producers : \A i \in 1..Len(FromProducer(p)) : FromProducer(p)[i] = <<p, i>>

C5_Witness ==
    \E p \in Producers, q \in Producers :
        p # q /\ Len(FromProducer(p)) >= 2 /\ Len(FromProducer(q)) >= 1

\* C6: at most one ingest call is outstanding, and it carries the message
\* the worker holds.
C6_OneIngestInFlight ==
    /\ inflight \in {0, 1}
    /\ inflight = 1 <=> pc = "ingest"

C6_Witness == inflight = 1 /\ Len(queue) >= 2 /\ Cardinality({queue[i].id[1] : i \in 1..Len(queue)}) = 2

\* C7: no entry is received twice; while the worker runs, what it has
\* received followed by what is queued is exactly what was accepted, in
\* order (nothing skipped); the entry it holds is the one received last; and
\* a message was left only after an Ok or after MAX_RETRIES failures.
C7_ConsumedExactlyOnce ==
    /\ \A i, j \in 1..Len(dequeued) : i # j => dequeued[i] # dequeued[j]
    /\ pc # "cancelled" => enq = dequeued \o QueuedIds
    /\ message # NoEntry => message.id = dequeued[Len(dequeued)]
    /\ last # NoLast => (last.ok \/ last.diags = MAX_RETRIES)
    /\ (message = NoEntry /\ pc # "cancelled" /\ dequeued # <<>>) =>
          last.id = dequeued[Len(dequeued)]

C7_Witness ==
    /\ Len(dequeued) >= 3 /\ message = NoEntry /\ pc = "recv"
    /\ last.ok /\ last.diags >= 1

C14_DeliveredWithoutMessageKey ==
    \A i \in 1..Len(payload) :
        LET r == payload[i].members IN
        /\ S_message \notin DOMAIN r.fields.members
        /\ message.ev = BuildLogEvent(EvBoom) =>
              /\ r.application = "svc" /\ r.environment = "prod" /\ r.level = "ERROR"
              /\ r.message = S_boom
              /\ r.fields.members = (S_count :> JNum(3))

\* C15: retries stays within 0..MAX_RETRIES; for the message held it counts
\* that message's failures only, so it is zero until the message's first
\* failure whatever earlier messages went through, and a message that is
\* dropped has had MAX_RETRIES attempts.
C15_RetriesResetPerMessage ==
    /\ retries \in 0..MAX_RETRIES
    /\ message # NoEntry => retries = diags
    /\ (message # NoEntry /\ calls - inflight = 0) => retries = 0
    /\ (last # NoLast /\ ~last.ok) => last.calls = MAX_RETRIES

C15_Witness ==
    /\ last # NoLast /\ ~last.ok /\ last.diags = MAX_RETRIES
    /\ pc = "ingest" /\ calls = MAX_RETRIES /\ retries = MAX_RETRIES - 1

\* The k-th entry the channel accepted; it has been received and left
Accepted(k) == Len(enq) >= k
Resolved(k) ==
    /\ Len(dequeued) >= k
    /\ dequeued[k] = enq[k]
    /\ message.id # enq[k]

\* C16: with a client whose calls return and a worker that is scheduled,
\* every entry the channel accepted is eventually left by the worker, after
\* an Ok or after MAX_RETRIES failures, with the worker back at rx.recv();
\* and the worker returns only after it received everything accepted.
C16_EveryEventResolved ==
    /\ \A k \in 1..MaxEvents : Accepted(k) ~> Resolved(k)
    /\ [][(message # NoEntry /\ message' = NoEntry) =>
            /\ pc' = "recv"
            /\ last'.id = message.id
            /\ (last'.ok \/ last'.diags = MAX_RETRIES)]_vars
    /\ [](pc = "done" => (queue = <<>> /\ dequeued = enq))

C16_Witness ==
    /\ pc = "done" /\ ~idleClose /\ dequeued = enq /\ Len(enq) >= 2
    /\ ~last.ok /\ last.diags = MAX_RETRIES /\ delivered # <<>>

\* C17: a message dropped after MAX_RETRIES failures has a diagnostic of its
\* own for the exhaustion, besides the one printed per failed call.
C17_ExhaustionReported ==
    (last # NoLast /\ ~last.ok) => last.diags > last.calls

\* C19: an ingest call carries exactly one record, the JSON of the message
\* the worker holds, which is the entry it received last and one the capture
\* hook built; the message held does not change until it is left.
C19_OneRecordPerCall ==
    /\ [](pc = "ingest" =>
            /\ Len(payload) = 1
            /\ payload[1] = ToJson(message.ev)
            /\ message.id = dequeued[Len(dequeued)]
            /\ message.ev \in {BuildLogEvent(ev) : ev \in Inputs})
    /\ [][(message # NoEntry /\ message' # NoEntry) => message' = message]_vars

C19_Witness ==
    pc = "ingest" /\ retries >= 2 /\ payload = <<ToJson(BuildLogEvent(EvBoom))>> /\ queue # <<>>

RECURSIVE IsSubseq(_, _)
IsSubseq(a, b) ==
    IF a = <<>> THEN TRUE
    ELSE IF b = <<>> THEN FALSE
    ELSE IF Head(a) = Head(b) THEN IsSubseq(Tail(a), Tail(b))
    ELSE IsSubseq(a, Tail(b))

\* C20: a call in flight is for the entry received last, an entry is
\* received only when no call is outstanding, and the ids whose ingest
\* returned Ok are a subsequence of the ids in the order received.
C20_NoInterleavedIngest ==
    /\ [](IsSubseq(delivered, dequeued))
    /\ [](inflight > 0 => (message # NoEntry /\ message.id = dequeued[Len(dequeued)]))
    /\ [][dequeued' # dequeued => inflight = 0]_vars

C20_Witness ==
    /\ Len(dequeued) = 3 /\ delivered = <<dequeued[1], dequeued[3]>>
    /\ last.ok /\ last.diags >= 1

----
\* Properties of the field visitor

Digit(d) == <<"0", "1", "2", "3", "4", "5", "6", "7", "8", "9">>[d + 1]
DecText(n) == IF n < 0 THEN <<"-", Digit(-n)>> ELSE <<Digit(n)>>

\* An attribute's value as a string: the text itself for a string, the
\* Debug rendering without its outer quotes for the fallback, the usual
\* text for numbers and booleans
ValueText(a) ==
    CASE a.kind = "str" -> a.s
      [] a.kind = "debug" -> trim_string_char(DebugFormat(a))
      [] a.kind = "bool" -> IF a.b THEN <<"t","r","u","e">> ELSE <<"f","a","l","s","e">>
      [] a.kind = "f64" /\ ~a.fin -> <<"N","a","N">>
      [] OTHER -> DecText(a.n)

MessageAttrs(ev) == { i \in 1..Len(ev.attrs) : ev.attrs[i].name = S_message }

\* C10: the LogEvent built from an event with a `message` attribute, of any
\* value kind, has that attribute's value as its message (outer quotes of the
\* Debug rendering stripped); the message is empty only when the event has
\* no message attribute.
C10_MessageFromAttribute ==
    built # NoEvent =>
        /\ \A i \in MessageAttrs(input) : built.message = ValueText(input.attrs[i])
        /\ built.message = <<>> => MessageAttrs(input) = {}

BuiltFields == built.fields.members
TypedKinds == {"f64", "i64", "u64", "bool", "str"}

\* C11: whatever the kind of its value, an attribute whose name starts with
\* `log.` is not a key of the built LogEvent's fields.
C11_NoInternalKeys ==
    built # NoEvent => \A k \in DOMAIN BuiltFields : ~StartsWith(k, S_log_dot)

\* C12: whatever the kind of its value, an attribute named `r#..` is stored
\* in fields under the name without the prefix, and no key of fields starts
\* with `r#`.
C12_KeywordPrefixStripped ==
    built # NoEvent =>
        /\ \A i \in 1..Len(input.attrs) :
              StartsWith(input.attrs[i].name, S_r_hash) =>
                  SliceFrom(input.attrs[i].name, 2) \in DOMAIN BuiltFields
        /\ \A k \in DOMAIN BuiltFields : ~StartsWith(k, S_r_hash)

\* The framework's target as characters
TargetText(t) == IF t = "app" THEN <<"a","p","p">> ELSE <<>>
TargetAttrs(ev) == { i \in 1..Len(ev.attrs) : ev.attrs[i].name = S_log_target }

\* C13: with a target-override attribute (`log.target`) the built LogEvent's
\* target is that attribute's value and the attribute is not in fields;
\* without it the target is the framework's.
C13_TargetOverride ==
    built # NoEvent =>
        /\ \A i \in TargetAttrs(input) :
              /\ TargetText(built.target) = ValueText(input.attrs[i])
              /\ S_log_target \notin DOMAIN BuiltFields
        /\ TargetAttrs(input) = {} => built.target = input.target

\* The JSON type the claim names for a value kind
JsonTypeOf(kind) ==
    CASE kind = "bool" -> "bool"
      [] kind = "str" -> "string"
      [] OTHER -> "number"

\* C18 as stated: every typed attribute is stored in fields as a value of
\* the JSON type of its kind, any f64 as a number.
C18_TypeMatchesKind ==
    built # NoEvent =>
        \A i \in 1..Len(input.attrs) :
            input.attrs[i].kind \in TypedKinds =>
                /\ input.attrs[i].name \in DOMAIN BuiltFields
                /\ BuiltFields[input.attrs[i].name].t = JsonTypeOf(input.attrs[i].kind)

\* What a typed attribute is stored as
StoredValue(a) ==
    CASE a.kind = "f64" -> IF a.fin THEN JNum(a.n) ELSE JNull
      [] a.kind = "bool" -> JBool(a.b)
      [] a.kind = "str" -> JStr(a.s)
      [] OTHER -> JNum(a.n)

\* C18, amended: every typed attribute is stored in fields, under its name,
\* as the JSON value of its kind: a finite f64, an i64 or a u64 as that
\* number, a bool as that boolean, a str as that string, and a non-finite
\* f64 as null; the conversion is defined for every value.
C18_TypeMatchesKindFinite ==
    built # NoEvent =>
        \A i \in 1..Len(input.attrs) :
            input.attrs[i].kind \in TypedKinds =>
                /\ input.attrs[i].name \in DOMAIN BuiltFields
                /\ BuiltFields[input.attrs[i].name] = StoredValue(input.attrs[i])

C18_Witness ==
    /\ built # NoEvent
    /\ \E i, j \in 1..Len(input.attrs) :
          /\ input.attrs[i].kind = "f64" /\ ~input.attrs[i].fin
          /\ BuiltFields[input.attrs[i].name] = JNull
          /\ input.attrs[j].kind = "bool"
          /\ BuiltFields[input.attrs[j].name] = JBool(TRUE)

====
